---- MODULE Spec2Model ----
(***************************************************************************)
(* Stratum V1 session state machines (protocols/v1/src/lib.rs): the        *)
(* default methods of the traits IsServer and IsClient, over the session   *)
(* state that the trait's required accessors expose.                       *)
(*                                                                         *)
(* The required methods of the two traits (is_authorized, authorize,       *)
(* set_extranonce1, id_is_authorize, handle_notify, ...) are only DECLARED *)
(* in lib.rs; so are the message types of the sub-modules methods, utils   *)
(* and json_rpc.  They are modelled here from their declarations, their    *)
(* doc comments and the specification, as plain accessors of the session   *)
(* record.  The application hooks that return a decision (handle_authorize,*)
(* handle_submit, handle_configure, handle_subscribe, handle_notify) are   *)
(* inputs of the actions, drawn from small sets.                           *)
(***************************************************************************)
EXTENDS Integers, Sequences, FiniteSets, TLC

(***************************************************************************)
(* Bounds of the model.                                                    *)
(***************************************************************************)
MaxNonceLen == 2

\* width of a HexU32Be (utils::HexU32Be wraps a u32)
WordBits == 32

(***************************************************************************)
(* Value domains.                                                          *)
(***************************************************************************)
None == [tag |-> "None"]
Some(x) == [tag |-> "Some", val |-> x]
Option(S) == {None} \cup {Some(x) : x \in S}

\* message ids and worker names
Ids == {"1", "7"}
Names == {"alice", "bob"}

\* A HexBytes is a byte vector.  Of an extra_nonce2 lib.rs reads the length
\* only; an extranonce1 is only stored and copied.
Zeros(n) == [i \in 1..n |-> 0]
ExtraNonce2s == {Zeros(n) : n \in 0..MaxNonceLen}
Extranonce1s == {<<8>>, <<9, 10>>}
Sizes == 0..MaxNonceLen

\* A HexU32Be is a 32-bit word, written as the set of the positions of its
\* set bits (bit 0 is the least significant one).
AllBits == 0..(WordBits - 1)
BitAnd(a, b) == a \cap b
BitNot(a) == AllBits \ a
\* 0x00000000, 0x1fffe000 (the usual BIP 310 mask), 0xffffffff
Masks == {{}, 13..28, AllBits}
\* 0x00000000, 0x00002000, 0x20000000, 0x20002000
VersionBits == {{}, {13}, {29}, {13, 29}}
\* 0x00000002
MinBits == {{1}}

VARIABLES
    srv_authorized_names,        \* server session: set of authorized names
    srv_extranonce1,             \* server session: HexBytes
    srv_extranonce2_size,        \* server session: usize
    srv_version_rolling_mask,    \* server session: Option<HexU32Be>
    srv_version_rolling_min_bit, \* server session: Option<HexU32Be>
    srv_last,                    \* the last server operation: its input, its
                                 \* result, the hooks it called and the
                                 \* session as it was before (history)
    srv_accepted,                \* the names for which handle_authorize has
                                 \* answered true so far (history)
    srv_assigned,                \* whether a Subscribe or an
                                 \* update_extranonce has assigned the
                                 \* extranonce values so far (history)
    cli_status,                  \* client session: ClientStatus
    cli_extranonce1,             \* client session: HexBytes
    cli_extranonce2_size,        \* client session: usize
    cli_version_rolling_mask,    \* client session: Option<HexU32Be>
    cli_version_rolling_min_bit, \* client session: Option<HexU32Be>
    cli_authorized_names,        \* client session: set of authorized names
    cli_last_notify,             \* client session: Option<Notify>
    cli_outstanding,             \* client session: id -> the request sent
                                 \* with it and not yet answered
    cli_last,                    \* the last client operation: its input, its
                                 \* result, the session as it was before, and
                                 \* for an ambiguous response the operation
                                 \* before it (history)
    cli_notified,                \* the job_id of the Notify handled last
                                 \* (history)
    hdr,                         \* the call made on the V2 frame header
                                 \* codec: its arguments and what it returned
    wire,                        \* the Responses (to Subscribe, or to
                                 \* Configure) on their way from the server
                                 \* to the client, oldest first; latest tells
                                 \* whether the server's values are still
                                 \* those it had when it sent the Response
                                 \* (history)
    hs                           \* the handshake (history): synced
                                 \* when the client holds what the server
                                 \* assigned last, shaken when a handshake
                                 \* was completed and update_extranonce not
                                 \* called since; at_submit is what the two
                                 \* were when the server handled its last
                                 \* Submit

srv_vars == <<srv_authorized_names, srv_extranonce1, srv_extranonce2_size,
              srv_version_rolling_mask, srv_version_rolling_min_bit,
              srv_last, srv_accepted, srv_assigned>>

cli_vars == <<cli_status, cli_extranonce1, cli_extranonce2_size,
              cli_version_rolling_mask, cli_version_rolling_min_bit,
              cli_authorized_names, cli_last_notify, cli_outstanding,
              cli_last, cli_notified>>

hdr_vars == <<hdr>>

hs_vars == <<wire, hs>>

vars == <<srv_vars, cli_vars, hdr_vars, hs_vars>>

(***************************************************************************)
(* Results: Result<Option<json_rpc::Response>, Error>.                     *)
(***************************************************************************)
Ok(x) == [tag |-> "Ok", val |-> x]
Err(e) == [tag |-> "Err", error |-> e]

(***************************************************************************)
(* The server session, as the required methods of IsServer expose it.      *)
(***************************************************************************)
ServerSession ==
    [authorized_names        |-> srv_authorized_names,
     extranonce1             |-> srv_extranonce1,
     extranonce2_size        |-> srv_extranonce2_size,
     version_rolling_mask    |-> srv_version_rolling_mask,
     version_rolling_min_bit |-> srv_version_rolling_min_bit]

Server_is_authorized(s, name) == name \in s.authorized_names

Server_authorize(s, name) ==
    [s EXCEPT !.authorized_names = @ \cup {name}]

\* "Set extranonce1 to extranonce1 if provided. If not create a new one and
\* set it."  fresh is the value the session creates.
Server_set_extranonce1(s, extranonce1, fresh) ==
    [s EXCEPT !.extranonce1 =
        IF extranonce1 = None THEN fresh ELSE extranonce1.val]

\* "Set extranonce2_size to extranonce2_size if provided. If not create a
\* new one and set it."
Server_set_extranonce2_size(s, extra_nonce2_size, fresh) ==
    [s EXCEPT !.extranonce2_size =
        IF extra_nonce2_size = None THEN fresh ELSE extra_nonce2_size.val]

Server_set_version_rolling_mask(s, mask) ==
    [s EXCEPT !.version_rolling_mask = mask]

Server_set_version_rolling_min_bit(s, mask) ==
    [s EXCEPT !.version_rolling_min_bit = mask]

\* utils::HexU32Be::check_mask: self is the session's mask, a the submitted
\* version bits; no bit of a outside the mask ((a AND NOT mask) == 0).
check_mask(mask, a) == BitAnd(a, BitNot(mask)) = {}

(***************************************************************************)
(* IsServer::handle_request, one operator per arm of the match.  Each      *)
(* gives the session after the handler, the handler's result and the set   *)
(* of application hooks it called.                                         *)
(***************************************************************************)
Outcome(s, result, called) ==
    [session |-> s, result |-> result, called |-> called]

\* methods::client_to_server::*::respond: a json_rpc::Response with the
\* request's id and the given result, error null.
respond(request, result) ==
    [id |-> request.id, result |-> result, error |-> None]

\* the name is registered whatever handle_authorize answers
handle_request_Authorize_always(s, authorize, authorized) ==
    [session |-> [s EXCEPT !.authorized_names = @ \cup {authorize.name}],
     result |-> [tag |-> "Ok",
                 val |-> [tag |-> "Some",
                          val |-> [id |-> authorize.id, result |-> authorized,
                                   error |-> [tag |-> "None"]]]],
     called |-> {"handle_authorize"}]

\* lib.rs 89-95; authorized is the answer of handle_authorize
handle_request_Authorize(s, authorize, authorized) ==
    LET s1 == IF authorized THEN Server_authorize(s, authorize.name) ELSE s
    IN  Outcome(s1, Ok(Some(respond(authorize, authorized))),
                {"handle_authorize"})

\* lib.rs 96-101; negotiated is the pair handle_configure returns
handle_request_Configure(s, configure, negotiated) ==
    LET s1 == Server_set_version_rolling_mask(s, configure.version_rolling_mask)
        s2 == Server_set_version_rolling_min_bit(s1,
                    configure.version_rolling_min_bit_count)
    IN  Outcome(s2, Ok(Some(respond(configure, negotiated))),
                {"handle_configure"})

\* lib.rs 102-105
handle_request_ExtranonceSubscribe(s, request) ==
    Outcome(s, Ok(None), {"handle_extranonce_subscribe"})

\* a Submit without version bits passes whatever the session's mask is
has_valid_version_bits_absent_ok(s, submit) ==
    IF submit.version_bits # None
    THEN IF s.version_rolling_mask # None
         THEN check_mask(s.version_rolling_mask.val, submit.version_bits.val)
         ELSE FALSE
    ELSE TRUE

\* lib.rs 107-116
has_valid_version_bits(s, submit) ==
    IF submit.version_bits # None
    THEN IF s.version_rolling_mask # None
         THEN check_mask(s.version_rolling_mask.val, submit.version_bits.val)
         ELSE FALSE
    ELSE s.version_rolling_mask = None

\* the length of extra_nonce2 is not compared with extranonce2_size
is_valid_submission_no_size(s, submit) ==
    /\ Server_is_authorized(s, submit.user_name)
    /\ has_valid_version_bits(s, submit)

\* lib.rs 118-120
is_valid_submission(s, submit) ==
    /\ Server_is_authorized(s, submit.user_name)
    /\ s.extranonce2_size = Len(submit.extra_nonce2)
    /\ has_valid_version_bits(s, submit)

\* handle_submit is asked before the submission is validated
handle_request_Submit_hook_first(s, submit, accepted) ==
    IF is_valid_submission(s, submit)
    THEN [session |-> s,
          result |-> [tag |-> "Ok",
                      val |-> [tag |-> "Some",
                               val |-> [id |-> submit.id, result |-> accepted,
                                        error |-> [tag |-> "None"]]]],
          called |-> {"handle_submit"}]
    ELSE [session |-> s,
          result |-> [tag |-> "Err", error |-> "InvalidSubmission"],
          called |-> {"handle_submit"}]

\* lib.rs 106-128; accepted is the answer of handle_submit
handle_request_Submit(s, submit, accepted) ==
    IF is_valid_submission(s, submit)
    THEN Outcome(s, Ok(Some(respond(submit, accepted))), {"handle_submit"})
    ELSE Outcome(s, Err("InvalidSubmission"), {})

\* lib.rs 129-138; subscriptions is the answer of handle_subscribe, fresh1
\* and fresh2 the values the session creates when asked to set None
handle_request_Subscribe_reports_old(s, subscribe, subscriptions, fresh1, fresh2) ==
    LET s1 == Server_set_extranonce1(s, None, fresh1)
        s2 == Server_set_extranonce2_size(s1, None, fresh2)
    IN  Outcome(s2,
                Ok(Some(respond(subscribe,
                                <<subscriptions, s.extranonce1,
                                  s.extranonce2_size>>))),
                {"handle_subscribe"})

handle_request_Subscribe_size_before_set(s, subscribe, subscriptions, fresh1, fresh2) ==
    LET s1 == Server_set_extranonce1(s, None, fresh1)
        extra_n1 == s1.extranonce1
        s2 == Server_set_extranonce2_size(s1, None, fresh2)
        extra_n2_size == s1.extranonce2_size
    IN  Outcome(s2,
                Ok(Some(respond(subscribe,
                                <<subscriptions, extra_n1, extra_n2_size>>))),
                {"handle_subscribe"})

handle_request_Subscribe(s, subscribe, subscriptions, fresh1, fresh2) ==
    LET s1 == Server_set_extranonce1(s, None, fresh1)
        extra_n1 == s1.extranonce1
        s2 == Server_set_extranonce2_size(s1, None, fresh2)
        extra_n2_size == s2.extranonce2_size
    IN  Outcome(s2,
                Ok(Some(respond(subscribe,
                                <<subscriptions, extra_n1, extra_n2_size>>))),
                {"handle_subscribe"})

\* lib.rs 81-140; hooks holds the answers of the application hooks
Server_handle_request(s, request, hooks) ==
    CASE request.method = "Authorize" ->
            handle_request_Authorize(s, request, hooks.authorized)
      [] request.method = "Configure" ->
            handle_request_Configure(s, request, hooks.negotiated)
      [] request.method = "ExtranonceSubscribe" ->
            handle_request_ExtranonceSubscribe(s, request)
      [] request.method = "Submit" ->
            handle_request_Submit(s, request, hooks.accepted)
      [] request.method = "Subscribe" ->
            handle_request_Subscribe(s, request, hooks.subscriptions,
                                     hooks.extranonce1, hooks.extranonce2_size)

Server_handle_message_no_guard(s, msg, hooks) ==
    CASE msg.kind = "Response" ->
            Outcome(s, Ok(None), {})
      [] msg.kind = "Request" ->
            Server_handle_request(s, msg.request, hooks)
      [] msg.kind = "ParseError" ->
            Outcome(s, Err("MethodError"), {})

\* lib.rs 64-77; msg is the inbound json_rpc message: a Response, or a
\* request or notification with the Client2Server method it parses into (or
\* the parsing error)
Server_handle_message(s, msg, hooks) ==
    CASE msg.kind = "Response" ->
            Outcome(s, Err("InvalidJsonRpcMessageKind"), {})
      [] msg.kind = "Request" ->
            Server_handle_request(s, msg.request, hooks)
      [] msg.kind = "ParseError" ->
            Outcome(s, Err("MethodError"), {})

Server_update_extranonce_keeps_size(s, extra_nonce1, extra_nonce2_size) ==
    LET s1 == Server_set_extranonce1(s, Some(extra_nonce1), extra_nonce1)
    IN  Outcome(s1,
                Ok([method |-> "mining.set_extranonce",
                    extra_nonce1 |-> extra_nonce1,
                    extra_nonce2_size |-> extra_nonce2_size]),
                {})

\* lib.rs 206-219: both values set, then the mining.set_extranonce message
Server_update_extranonce(s, extra_nonce1, extra_nonce2_size) ==
    LET s1 == Server_set_extranonce1(s, Some(extra_nonce1), extra_nonce1)
        s2 == Server_set_extranonce2_size(s1, Some(extra_nonce2_size),
                                          extra_nonce2_size)
    IN  Outcome(s2,
                Ok([method |-> "mining.set_extranonce",
                    extra_nonce1 |-> extra_nonce1,
                    extra_nonce2_size |-> extra_nonce2_size]),
                {})

(***************************************************************************)
(* Server actions.  Init is a session as its constructor may leave it: no  *)
(* name authorized, no version rolling negotiated, some extranonce1 and    *)
(* extranonce2_size.                                                       *)
(***************************************************************************)
NoHooks ==
    [authorized |-> FALSE, negotiated |-> <<None, None>>,
     accepted |-> FALSE, subscriptions |-> <<>>,
     extranonce1 |-> <<>>, extranonce2_size |-> 0]

\* what handle_configure may answer: the negotiated version-rolling
\* parameters (or none) and the minimum-difficulty flag
Negotiated ==
    {<<None, None>>} \cup
    {<<Some([version_rolling_mask |-> m, version_rolling_min_bit_count |-> b]),
       Some(TRUE)>> : m \in {13..28}, b \in MinBits}

ServerInit ==
    /\ srv_authorized_names = {}
    /\ srv_extranonce1 = <<8>>
    /\ srv_extranonce2_size = 0
    /\ srv_version_rolling_mask = None
    /\ srv_version_rolling_min_bit = None
    /\ srv_last = [op |-> "new"]
    /\ srv_accepted = {}
    /\ srv_assigned = FALSE

ServerDo(op, input, hooks, out) ==
    /\ srv_authorized_names' = out.session.authorized_names
    /\ srv_extranonce1' = out.session.extranonce1
    /\ srv_extranonce2_size' = out.session.extranonce2_size
    /\ srv_version_rolling_mask' = out.session.version_rolling_mask
    /\ srv_version_rolling_min_bit' = out.session.version_rolling_min_bit
    /\ srv_last' = [op |-> op, input |-> input, hooks |-> hooks,
                    result |-> out.result, called |-> out.called,
                    pre |-> ServerSession, assigned |-> srv_assigned]
    /\ srv_assigned' =
         (srv_assigned \/ op = "update_extranonce"
            \/ (op = "handle_request" /\ input.method = "Subscribe"))
    /\ srv_accepted' =
         IF op = "handle_request" /\ input.method = "Authorize"
            /\ hooks.authorized
         THEN srv_accepted \cup {input.name}
         ELSE srv_accepted

ServerHandle(request, hooks) ==
    ServerDo("handle_request", request, hooks,
             Server_handle_request(ServerSession, request, hooks))

ServerAuthorize ==
    \E id \in Ids, name \in Names, authorized \in BOOLEAN :
        ServerHandle([method |-> "Authorize", id |-> id, name |-> name,
                      password |-> "pw"],
                     [NoHooks EXCEPT !.authorized = authorized])

ServerConfigure ==
    \E id \in Ids, mask \in Option(Masks), min_bit \in Option(MinBits),
       negotiated \in Negotiated :
        ServerHandle([method |-> "Configure", id |-> id,
                      version_rolling_mask |-> mask,
                      version_rolling_min_bit_count |-> min_bit],
                     [NoHooks EXCEPT !.negotiated = negotiated])

ServerExtranonceSubscribe ==
    \E id \in Ids :
        ServerHandle([method |-> "ExtranonceSubscribe", id |-> id], NoHooks)

ServerSubmit ==
    \E id \in Ids, user_name \in Names, extra_nonce2 \in ExtraNonce2s,
       version_bits \in Option(VersionBits), accepted \in BOOLEAN :
        ServerHandle([method |-> "Submit", id |-> id, user_name |-> user_name,
                      extra_nonce2 |-> extra_nonce2,
                      version_bits |-> version_bits],
                     [NoHooks EXCEPT !.accepted = accepted])

ServerSubscribe ==
    \E id \in Ids, fresh1 \in Extranonce1s, fresh2 \in Sizes :
        ServerHandle([method |-> "Subscribe", id |-> id],
                     [NoHooks EXCEPT !.extranonce1 = fresh1,
                                     !.extranonce2_size = fresh2])

ServerUpdateExtranonce ==
    \E extra_nonce1 \in Extranonce1s, extra_nonce2_size \in Sizes :
        ServerDo("update_extranonce",
                 [extra_nonce1 |-> extra_nonce1,
                  extra_nonce2_size |-> extra_nonce2_size],
                 NoHooks,
                 Server_update_extranonce(ServerSession, extra_nonce1,
                                          extra_nonce2_size))

\* the json_rpc messages a server is handed through handle_message: the
\* responses (with a result or with an error), a request that parses and one
\* that does not
InboundResponses ==
    {[kind |-> "Response", id |-> id, is_error |-> e] :
        id \in Ids, e \in BOOLEAN}

ServerHandleMessage ==
    \E msg \in InboundResponses \cup
                {[kind |-> "Request",
                  request |-> [method |-> "ExtranonceSubscribe", id |-> id]] :
                    id \in Ids} \cup
                {[kind |-> "ParseError"]} :
        ServerDo("handle_message", msg, NoHooks,
                 Server_handle_message(ServerSession, msg, NoHooks))

(***************************************************************************)
(* The client session, as the required methods of IsClient expose it.      *)
(***************************************************************************)
ClientSession ==
    [status                  |-> cli_status,
     extranonce1             |-> cli_extranonce1,
     extranonce2_size        |-> cli_extranonce2_size,
     version_rolling_mask    |-> cli_version_rolling_mask,
     version_rolling_min_bit |-> cli_version_rolling_min_bit,
     authorized_names        |-> cli_authorized_names,
     last_notify             |-> cli_last_notify,
     outstanding             |-> cli_outstanding]

\* lib.rs 450-455, in declaration order
ClientStatus == <<"Init", "Configured", "Subscribed">>

StatusRank(status) == CHOOSE i \in 1..Len(ClientStatus) : ClientStatus[i] = status

Client_set_status(c, status) == [c EXCEPT !.status = status]

Client_set_extranonce1(c, extranonce1) == [c EXCEPT !.extranonce1 = extranonce1]

Client_set_extranonce2_size(c, extra_nonce2_size) ==
    [c EXCEPT !.extranonce2_size = extra_nonce2_size]

Client_set_version_rolling_mask(c, mask) ==
    [c EXCEPT !.version_rolling_mask = mask]

Client_set_version_rolling_min_bit(c, min) ==
    [c EXCEPT !.version_rolling_min_bit = min]

Client_is_authorized(c, name) == name \in c.authorized_names

Client_authorize_user_name(c, name) ==
    [c EXCEPT !.authorized_names = @ \cup {name}]

\* handle_notify: the Notify becomes last_notify
Client_handle_notify(c, notify) == [c EXCEPT !.last_notify = Some(notify)]

\* The outstanding-request table behind id_is_authorize and id_is_submit:
\* an entry is removed when it first matches.
IsAuthorizeEntry(e) == e # None /\ e.val.kind = "Authorize"
IsSubmitEntry(e) == e # None /\ e.val.kind = "Submit"

id_is_authorize(c, id) ==
    IF IsAuthorizeEntry(c.outstanding[id])
    THEN [session |-> [c EXCEPT !.outstanding[id] = None],
          val |-> Some(c.outstanding[id].val.name)]
    ELSE [session |-> c, val |-> None]

id_is_submit(c, id) ==
    IF IsSubmitEntry(c.outstanding[id])
    THEN [session |-> [c EXCEPT !.outstanding[id] = None], val |-> TRUE]
    ELSE [session |-> c, val |-> FALSE]

\* methods::server_to_client::GeneralResponse::into_authorize / into_submit
into_authorize(general, prev_name) ==
    [variant |-> "Authorize", id |-> general.id, result |-> general.result,
     user_name |-> prev_name]

into_submit(general) ==
    [variant |-> "Submit", id |-> general.id, result |-> general.result]

\* lib.rs 256-277
update_response(c, response) ==
    IF response.variant = "GeneralResponse"
    THEN LET is_authorize == id_is_authorize(c, response.id)
             is_submit == id_is_submit(is_authorize.session, response.id)
             c1 == is_submit.session
         IN  CASE is_authorize.val # None /\ ~is_submit.val ->
                    [session |-> c1,
                     result |-> Ok(into_authorize(response,
                                                  is_authorize.val.val))]
               [] is_authorize.val = None /\ ~is_submit.val ->
                    [session |-> c1, result |-> Ok(into_submit(response))]
               [] OTHER ->
                    [session |-> c1, result |-> Err(<<"UnknownID", response.id>>)]
    ELSE [session |-> c, result |-> Ok(response)]

\* methods::server_to_client::Authorize::is_ok: the result is true
is_ok(authorize) == authorize.result = TRUE

\* The unit value of Result<(), Error>
Unit == <<>>

\* the name is registered whatever the result of the response is
Client_handle_response_ignores_result(c, response, hook_ok) ==
    CASE response.variant = "Configure" ->
            IF ~hook_ok
            THEN [session |-> c, result |-> [tag |-> "Err", error |-> "handle_configure"],
                  called |-> {"handle_configure"}]
            ELSE [session |-> [c EXCEPT !.version_rolling_mask = response.version_rolling_mask,
                                        !.version_rolling_min_bit = response.version_rolling_min_bit,
                                        !.status = "Configured"],
                  result |-> [tag |-> "Ok", val |-> <<>>],
                  called |-> {"handle_configure"}]
      [] response.variant = "Subscribe" ->
            IF ~hook_ok
            THEN [session |-> c, result |-> [tag |-> "Err", error |-> "handle_subscribe"],
                  called |-> {"handle_subscribe"}]
            ELSE [session |-> [c EXCEPT !.extranonce1 = response.extra_nonce1,
                                        !.extranonce2_size = response.extra_nonce2_size,
                                        !.status = "Subscribed"],
                  result |-> [tag |-> "Ok", val |-> <<>>],
                  called |-> {"handle_subscribe"}]
      [] response.variant = "Authorize" ->
            [session |-> [c EXCEPT !.authorized_names = @ \cup {response.user_name}],
             result |-> [tag |-> "Ok", val |-> <<>>], called |-> {}]
      [] response.variant = "Submit" ->
            [session |-> c, result |-> [tag |-> "Ok", val |-> <<>>], called |-> {}]
      [] response.variant = "GeneralResponse" ->
            [session |-> c, result |-> [tag |-> "Panic"], called |-> {}]

\* lib.rs 299-328; hook_ok tells whether the application hook the arm calls
\* (handle_configure, handle_subscribe) returns Ok
Client_handle_response(c, response, hook_ok) ==
    CASE response.variant = "Configure" ->
            IF ~hook_ok
            THEN Outcome(c, Err("handle_configure"), {"handle_configure"})
            ELSE LET c1 == Client_set_version_rolling_mask(c,
                                response.version_rolling_mask)
                     c2 == Client_set_version_rolling_min_bit(c1,
                                response.version_rolling_min_bit)
                     c3 == Client_set_status(c2, "Configured")
                 IN  Outcome(c3, Ok(Unit), {"handle_configure"})
      [] response.variant = "Subscribe" ->
            IF ~hook_ok
            THEN Outcome(c, Err("handle_subscribe"), {"handle_subscribe"})
            ELSE LET c1 == Client_set_extranonce1(c, response.extra_nonce1)
                     c2 == Client_set_extranonce2_size(c1,
                                response.extra_nonce2_size)
                     c3 == Client_set_status(c2, "Subscribed")
                 IN  Outcome(c3, Ok(Unit), {"handle_subscribe"})
      [] response.variant = "Authorize" ->
            LET c1 == IF is_ok(response)
                      THEN Client_authorize_user_name(c, response.user_name)
                      ELSE c
            IN  Outcome(c1, Ok(Unit), {})
      [] response.variant = "Submit" -> Outcome(c, Ok(Unit), {})
      [] response.variant = "GeneralResponse" ->
            Outcome(c, [tag |-> "Panic"], {})

Client_handle_request_keeps_first(c, request, hook_ok) ==
    CASE request.method = "Notify" ->
            IF hook_ok
            THEN Outcome(IF c.last_notify = None
                         THEN Client_handle_notify(c, request) ELSE c,
                         Ok(None), {"handle_notify"})
            ELSE Outcome(c, Err("handle_notify"), {"handle_notify"})
      [] request.method \in {"SetDifficulty", "SetExtranonce", "SetVersionMask"} ->
            Outcome(c, [tag |-> "Panic"], {})

\* lib.rs 281-297; hook_ok tells whether handle_notify returns Ok
Client_handle_request(c, request, hook_ok) ==
    CASE request.method = "Notify" ->
            IF hook_ok
            THEN Outcome(Client_handle_notify(c, request), Ok(None),
                         {"handle_notify"})
            ELSE Outcome(c, Err("handle_notify"), {"handle_notify"})
      [] request.method \in {"SetDifficulty", "SetExtranonce", "SetVersionMask"} ->
            Outcome(c, [tag |-> "Panic"], {})

Client_handle_message_drops_client2server(c, msg, hook_ok) ==
    CASE msg.kind = "Server2ClientResponse" ->
            LET updated == update_response(c, msg.response)
            IN  IF updated.result.tag = "Err"
                THEN Outcome(updated.session, updated.result, {})
                ELSE LET handled == Client_handle_response(updated.session,
                                        updated.result.val, hook_ok)
                     IN  IF handled.result.tag = "Ok"
                         THEN Outcome(handled.session, Ok(None), handled.called)
                         ELSE handled
      [] msg.kind = "Server2Client" ->
            Client_handle_request(c, msg.request, hook_ok)
      [] msg.kind = "Client2Server" ->
            Outcome(c, Ok(None), {})
      [] msg.kind = "ErrorMessage" ->
            Outcome(c, Ok(None), {"handle_error_message"})
      [] msg.kind = "ParseError" ->
            Outcome(c, Err("MethodError"), {})

\* lib.rs 233-254; msg is the inbound message with the Method it parses
\* into (or the parsing error)
Client_handle_message(c, msg, hook_ok) ==
    CASE msg.kind = "Server2ClientResponse" ->
            LET updated == update_response(c, msg.response)
            IN  IF updated.result.tag = "Err"
                THEN Outcome(updated.session, updated.result, {})
                ELSE LET handled == Client_handle_response(updated.session,
                                        updated.result.val, hook_ok)
                     IN  IF handled.result.tag = "Ok"
                         THEN Outcome(handled.session, Ok(None), handled.called)
                         ELSE handled
      [] msg.kind = "Server2Client" ->
            Client_handle_request(c, msg.request, hook_ok)
      [] msg.kind = "Client2Server" ->
            Outcome(c, Err("InvalidReceiver"), {})
      [] msg.kind = "ErrorMessage" ->
            Outcome(c, Ok(None), {"handle_error_message"})
      [] msg.kind = "ParseError" ->
            Outcome(c, Err("MethodError"), {})

(***************************************************************************)
(* The outbound builders of the client, lib.rs 379-447.                    *)
(***************************************************************************)
\* lib.rs 379-386: a json_rpc::Message, not a Result
Client_configure(c, id) ==
    Outcome(c, [tag |-> "Message",
                val |-> [method |-> "mining.configure", id |-> id,
                         version_rolling_mask |-> c.version_rolling_mask,
                         version_rolling_min_bit |-> c.version_rolling_min_bit]],
            {})

\* building the request starts the session over
Client_subscribe_restarts(c, id, extranonce1) ==
    IF c.status = "Init"
    THEN Outcome(c, Err(Unit), {})
    ELSE Outcome(Client_set_status(c, "Init"),
                 Ok([method |-> "mining.subscribe", id |-> id,
                     extranonce1 |-> extranonce1]), {})

\* lib.rs 388-402
Client_subscribe(c, id, extranonce1) ==
    IF c.status = "Init"
    THEN Outcome(c, Err(Unit), {})
    ELSE Outcome(c, Ok([method |-> "mining.subscribe", id |-> id,
                        extranonce1 |-> extranonce1]), {})

\* the status is not looked at
Client_authorize_no_guard(c, id, name, password) ==
    [session |-> c,
     result |-> [tag |-> "Ok",
                 val |-> [method |-> "mining.authorize", id |-> id,
                          name |-> name, password |-> password]],
     called |-> {}]

\* lib.rs 404-414
Client_authorize(c, id, name, password) ==
    IF c.status = "Init"
    THEN Outcome(c, Err(Unit), {})
    ELSE Outcome(c, Ok([method |-> "mining.authorize", id |-> id,
                        name |-> name, password |-> password]), {})

\* the user name is not checked against the authorized names
Client_submit_no_auth(c, id, user_name, extra_nonce2, version_bits) ==
    IF c.status = "Init" \/ c.last_notify = [tag |-> "None"]
    THEN [session |-> c, result |-> [tag |-> "Err", error |-> <<>>],
          called |-> {}]
    ELSE [session |-> c,
          result |-> [tag |-> "Ok",
                      val |-> [method |-> "mining.submit", id |-> id,
                               job_id |-> c.last_notify.val.job_id,
                               user_name |-> user_name,
                               extra_nonce2 |-> extra_nonce2,
                               version_bits |-> version_bits]],
          called |-> {}]

\* lib.rs 416-447
Client_submit(c, id, user_name, extra_nonce2, version_bits) ==
    IF c.status = "Init"
    THEN Outcome(c, Err(Unit), {})
    ELSE IF c.last_notify = None
         THEN Outcome(c, Err(Unit), {})
         ELSE IF Client_is_authorized(c, user_name)
              THEN Outcome(c, Ok([method |-> "mining.submit", id |-> id,
                                  job_id |-> c.last_notify.val.job_id,
                                  user_name |-> user_name,
                                  extra_nonce2 |-> extra_nonce2,
                                  version_bits |-> version_bits]), {})
              ELSE Outcome(c, Err(Unit), {})

(***************************************************************************)
(* Client actions.  Init is a client as constructed: status Init, nothing  *)
(* negotiated, no name authorized, no job, no request outstanding.         *)
(***************************************************************************)
Jobs == {"job_a", "job_b"}

ConfigureResponses ==
    {[variant |-> "Configure", id |-> id,
      version_rolling_mask |-> p[1], version_rolling_min_bit |-> p[2]] :
        id \in Ids, p \in {<<None, None>>, <<Some(13..28), Some({1})>>}}

SubscribeResponses ==
    {[variant |-> "Subscribe", id |-> id,
      extra_nonce1 |-> e, extra_nonce2_size |-> MaxNonceLen] :
        id \in Ids, e \in {<<9, 10>>}}

AuthorizeResponses ==
    {[variant |-> "Authorize", id |-> id, result |-> r, user_name |-> n] :
        id \in Ids, r \in BOOLEAN, n \in Names}

SubmitResponses ==
    {[variant |-> "Submit", id |-> id, result |-> r] :
        id \in Ids, r \in BOOLEAN}

GeneralResponses ==
    {[variant |-> "GeneralResponse", id |-> id, result |-> r] :
        id \in Ids, r \in BOOLEAN}

Server2ClientResponses ==
    ConfigureResponses \cup SubscribeResponses \cup AuthorizeResponses
        \cup SubmitResponses \cup GeneralResponses

Server2ClientRequests ==
    {[method |-> "Notify", job_id |-> j] : j \in Jobs} \cup
    {[method |-> "SetDifficulty", value |-> 2],
     [method |-> "SetExtranonce", extra_nonce1 |-> <<9, 10>>,
      extra_nonce2_size |-> MaxNonceLen],
     [method |-> "SetVersionMask", version_mask |-> 13..28]}

Client2ServerMethods ==
    {"Authorize", "Configure", "ExtranonceSubscribe", "Submit", "Subscribe"}

\* whether the arm that handles the message asks an application hook whose
\* failure it propagates
AsksHook(msg) ==
    \/ msg.kind = "Server2ClientResponse"
          /\ msg.response.variant \in {"Configure", "Subscribe"}
    \/ msg.kind = "Server2Client" /\ msg.request.method = "Notify"

ClientInit ==
    /\ cli_status = "Init"
    /\ cli_extranonce1 = <<>>
    /\ cli_extranonce2_size = 0
    /\ cli_version_rolling_mask = None
    /\ cli_version_rolling_min_bit = None
    /\ cli_authorized_names = {}
    /\ cli_last_notify = None
    /\ cli_outstanding = [id \in Ids |-> None]
    /\ cli_last = [op |-> "new", result |-> Ok(Unit)]
    /\ cli_notified = None

\* a panic (todo!(), panic!()) ends the client
ClientPanicked == cli_last.result.tag = "Panic"

IsGeneral(msg) ==
    msg.kind = "Server2ClientResponse"
        /\ msg.response.variant = "GeneralResponse"

\* What the handling of an ambiguous response remembers of the operation
\* before it: the request authorize or submit has just built (and whether
\* the application registered it), or the ambiguous response just handled.
Summary ==
    IF cli_last.op \in {"authorize", "submit"} /\ cli_last.result.tag = "Ok"
    THEN Some([op |-> cli_last.op, id |-> cli_last.input.id,
               name |-> cli_last.input.name,
               registered |-> cli_last.registered])
    ELSE IF cli_last.op = "handle_message" /\ IsGeneral(cli_last.input)
         THEN Some([op |-> "handle_message",
                    id |-> cli_last.input.response.id,
                    entry |-> cli_last.pre.outstanding[cli_last.input.response.id],
                    resolved |-> cli_last.resolved])
         ELSE None

ClientDo(op, input, hook_ok, resolved, out) ==
    /\ ~ClientPanicked
    /\ cli_status' = out.session.status
    /\ cli_extranonce1' = out.session.extranonce1
    /\ cli_extranonce2_size' = out.session.extranonce2_size
    /\ cli_version_rolling_mask' = out.session.version_rolling_mask
    /\ cli_version_rolling_min_bit' = out.session.version_rolling_min_bit
    /\ cli_authorized_names' = out.session.authorized_names
    /\ cli_last_notify' = out.session.last_notify
    /\ cli_outstanding' = out.session.outstanding
    /\ cli_notified' =
         IF "handle_notify" \in out.called /\ out.result.tag = "Ok"
         THEN Some(input.request.job_id)
         ELSE cli_notified
    /\ cli_last' = [op |-> op, input |-> input, hook_ok |-> hook_ok,
                    result |-> out.result, resolved |-> resolved,
                    called |-> out.called, registered |-> FALSE,
                    pre |-> ClientSession,
                    prev |-> IF op = "handle_message" /\ IsGeneral(input)
                             THEN Summary ELSE None]

ClientHandle(msg, hook_ok) ==
    ClientDo("handle_message", msg, hook_ok,
             IF msg.kind = "Server2ClientResponse"
             THEN update_response(ClientSession, msg.response).result
             ELSE None,
             Client_handle_message(ClientSession, msg, hook_ok))

ClientHandleResponse ==
    \E response \in Server2ClientResponses, hook_ok \in BOOLEAN :
        LET msg == [kind |-> "Server2ClientResponse", response |-> response]
        IN  /\ hook_ok \/ AsksHook(msg)
            /\ ClientHandle(msg, hook_ok)

ClientHandleNotification ==
    \E request \in Server2ClientRequests, hook_ok \in BOOLEAN :
        LET msg == [kind |-> "Server2Client", request |-> request]
        IN  /\ hook_ok \/ AsksHook(msg)
            /\ ClientHandle(msg, hook_ok)

ClientHandleClient2Server ==
    \E m \in Client2ServerMethods :
        ClientHandle([kind |-> "Client2Server", method |-> m], TRUE)

ClientHandleErrorMessage ==
    ClientHandle([kind |-> "ErrorMessage"], TRUE)

ClientHandleParseError ==
    ClientHandle([kind |-> "ParseError"], TRUE)

ClientConfigure ==
    \E id \in Ids :
        ClientDo("configure", [id |-> id], TRUE, None,
                 Client_configure(ClientSession, id))

ClientSubscribe ==
    \E id \in Ids, extranonce1 \in {None, Some(<<8>>)} :
        ClientDo("subscribe", [id |-> id, extranonce1 |-> extranonce1], TRUE,
                 None, Client_subscribe(ClientSession, id, extranonce1))

ClientAuthorize ==
    \E id \in Ids, name \in Names :
        ClientDo("authorize", [id |-> id, name |-> name, password |-> "pw"],
                 TRUE, None, Client_authorize(ClientSession, id, name, "pw"))

ClientSubmit ==
    \E id \in Ids, user_name \in Names :
        ClientDo("submit",
                 [id |-> id, name |-> user_name,
                  extra_nonce2 |-> Zeros(cli_extranonce2_size),
                  version_bits |-> None],
                 TRUE, None,
                 Client_submit(ClientSession, id, user_name,
                               Zeros(cli_extranonce2_size), None))

\* The application that called authorize or submit records the request it
\* has just built in the outstanding-request table.
ClientRegister ==
    /\ ~ClientPanicked
    /\ cli_last.op \in {"authorize", "submit"}
    /\ cli_last.result.tag = "Ok"
    /\ ~cli_last.registered
    /\ cli_outstanding' =
         [cli_outstanding EXCEPT ![cli_last.input.id] =
            IF cli_last.op = "authorize"
            THEN Some([kind |-> "Authorize", name |-> cli_last.input.name])
            ELSE Some([kind |-> "Submit"])]
    /\ cli_last' = [cli_last EXCEPT !.registered = TRUE]
    /\ UNCHANGED <<cli_status, cli_extranonce1, cli_extranonce2_size,
                   cli_version_rolling_mask, cli_version_rolling_min_bit,
                   cli_authorized_names, cli_last_notify, cli_notified>>

ClientNext ==
    \/ ClientHandleResponse
    \/ ClientHandleNotification
    \/ ClientHandleClient2Server
    \/ ClientHandleErrorMessage
    \/ ClientHandleParseError
    \/ ClientConfigure
    \/ ClientSubscribe
    \/ ClientAuthorize
    \/ ClientSubmit
    \/ ClientRegister

ServerNext ==
    \/ ServerAuthorize
    \/ ServerConfigure
    \/ ServerExtranonceSubscribe
    \/ ServerSubmit
    \/ ServerSubscribe
    \/ ServerUpdateExtranonce
    \/ ServerHandleMessage

(***************************************************************************)
(* The V2 frame header, framing-sv2/src/header.rs.  An unsigned integer is *)
(* a natural number below 2^width; the u32 samples stay below 2^31.        *)
(***************************************************************************)
MaxBytesLen == 7

SV2_FRAME_HEADER_SIZE == 6

ByteVals == {0, 1, 255}

RECURSIVE SeqsOfLen(_, _)
SeqsOfLen(S, n) ==
    IF n = 0 THEN {<<>>}
    ELSE {Append(q, x) : q \in SeqsOfLen(S, n - 1), x \in S}

\* the buffers handed to from_bytes: shorter than, as long as and longer
\* than a header
ByteBuffers == UNION {SeqsOfLen(ByteVals, n) : n \in 0..MaxBytesLen}

U32Samples ==
    {0, 1, 255, 256, 65535, 65536, 2^24 - 1, 2^24, 2^24 + 1, 2147483647}

MsgTypes == {0, 1, 255}

ExtensionTypes == {0, 1, 2, 3, 255, 256, 257, 32768, 65535}

u16_from_le_bytes(b) == b[1] + 256 * b[2]

u32_from_le_bytes(b) == b[1] + 256 * b[2] + 65536 * b[3] + 16777216 * b[4]

\* TryFrom<u32> for U24: the values below 2^24
U24_try_from(x) == IF x < 2^24 THEN Some(x) ELSE None

\* u16 & u16, bit by bit
RECURSIVE BitAndU16(_, _, _)
BitAndU16(a, b, bits) ==
    IF bits = 0 THEN 0
    ELSE (a % 2) * (b % 2) + 2 * BitAndU16(a \div 2, b \div 2, bits - 1)

Header_SIZE == SV2_FRAME_HEADER_SIZE

Header_from_bytes_reversed_check(bytes) ==
    IF Len(bytes) <= Header_SIZE
    THEN Err(Header_SIZE - Len(bytes))
    ELSE LET extension_type == u16_from_le_bytes(<<bytes[1], bytes[2]>>)
             msg_type == bytes[3]
             msg_length ==
                 U24_try_from(u32_from_le_bytes(<<bytes[4], bytes[5],
                                                  bytes[6], 0>>))
         IN  IF msg_length = None
             THEN [tag |-> "Panic"]
             ELSE Ok([extension_type |-> extension_type,
                      msg_type |-> msg_type,
                      msg_length |-> msg_length.val])

\* header.rs 34-49; the unwrap of the U24 conversion panics on None
Header_from_bytes(bytes) ==
    IF Len(bytes) < Header_SIZE
    THEN Err(Header_SIZE - Len(bytes))
    ELSE LET extension_type == u16_from_le_bytes(<<bytes[1], bytes[2]>>)
             msg_type == bytes[3]
             msg_length ==
                 U24_try_from(u32_from_le_bytes(<<bytes[4], bytes[5],
                                                  bytes[6], 0>>))
         IN  IF msg_length = None
             THEN [tag |-> "Panic"]
             ELSE Ok([extension_type |-> extension_type,
                      msg_type |-> msg_type,
                      msg_length |-> msg_length.val])

\* header.rs 53-56
Header_len(h) == h.msg_length

Header_from_len_truncating(len, message_type, extension_type) ==
    Some([extension_type |-> extension_type,
          msg_type |-> message_type,
          msg_length |-> len % 2^24])

\* header.rs 59-65
Header_from_len(len, message_type, extension_type) ==
    LET msg_length == U24_try_from(len)
    IN  IF msg_length = None
        THEN None
        ELSE Some([extension_type |-> extension_type,
                   msg_type |-> message_type,
                   msg_length |-> msg_length.val])

\* header.rs 67-69
Header_msg_type(h) == h.msg_type

Header_channel_msg_low_bit_set(h) ==
    LET mask == 1
    IN  BitAndU16(h.extension_type, mask, 16) = mask

\* header.rs 71-74
Header_channel_msg(h) ==
    LET mask == 1
    IN  BitAndU16(h.extension_type, mask, 16) = h.extension_type

\* the serialized header: extension_type, msg_type and msg_length in this
\* order, little-endian, msg_length on three bytes
Header_to_bytes(h) ==
    <<h.extension_type % 256, h.extension_type \div 256,
      h.msg_type,
      h.msg_length % 256, (h.msg_length \div 256) % 256,
      h.msg_length \div 65536>>

HeaderInit == hdr = [op |-> "none"]

HeaderFromBytes ==
    /\ hdr.op = "none"
    /\ \E bytes \in ByteBuffers :
          hdr' = [op |-> "from_bytes", bytes |-> bytes,
                  result |-> Header_from_bytes(bytes)]

HeaderFromLen ==
    /\ hdr.op = "none"
    /\ \E len \in U32Samples, message_type \in MsgTypes,
          extension_type \in ExtensionTypes :
          LET made == Header_from_len(len, message_type, extension_type)
          IN  hdr' = [op |-> "from_len", len |-> len,
                      message_type |-> message_type,
                      extension_type |-> extension_type,
                      result |-> made,
                      decoded |-> IF made = None THEN None
                                  ELSE Some(Header_from_bytes(
                                                Header_to_bytes(made.val)))]

\* channel_msg on the headers of every extension type
HeaderChannelMsg ==
    /\ hdr.op = "none"
    /\ \E extension_type \in 0..65535,
          rest \in {<<0, 0>>, <<255, 2^24 - 1>>} :
          LET h == Header_from_len(rest[2], rest[1], extension_type).val
          IN  hdr' = [op |-> "channel_msg", header |-> h,
                      result |-> Header_channel_msg(h)]

HeaderNext ==
    \/ HeaderFromBytes
    \/ HeaderFromLen
    \/ HeaderChannelMsg

(***************************************************************************)
(* The Subscribe handshake: the Responses of the server to Subscribe       *)
(* requests travel, in order, to the client that handles them.             *)
(***************************************************************************)
MaxWire == 2

\* the extranonce2 sizes the pool of the handshake hands out
PoolSizes == {0, MaxNonceLen}

\* the Subscribe response the client parses out of the json_rpc Response
\* {id, result: [subscriptions, extranonce1, extranonce2_size]}
Subscribe_try_from(response) ==
    [variant |-> "Subscribe", id |-> response.id,
     extra_nonce1 |-> response.result[2],
     extra_nonce2_size |-> response.result[3]]

Stale(w) == [i \in DOMAIN w |-> [w[i] EXCEPT !.latest = FALSE]]

HandshakeInit ==
    /\ wire = <<>>
    /\ hs = [synced |-> FALSE, shaken |-> FALSE,
             at_submit |-> [synced |-> FALSE, shaken |-> FALSE]]

HandshakeServerSubscribe ==
    /\ Len(wire) < MaxWire
    /\ \E fresh1 \in Extranonce1s, fresh2 \in PoolSizes :
          LET request == [method |-> "Subscribe", id |-> "1"]
              hooks == [NoHooks EXCEPT !.extranonce1 = fresh1,
                                       !.extranonce2_size = fresh2]
              out == Server_handle_request(ServerSession, request, hooks)
          IN  /\ ServerDo("handle_request", request, hooks, out)
              /\ wire' = Append(Stale(wire),
                                [response |-> out.result.val.val,
                                 latest |-> TRUE])
    /\ hs' = [hs EXCEPT !.synced = FALSE]
    /\ UNCHANGED <<cli_vars, hdr_vars>>

\* the mining.set_extranonce notification it returns is left with the
\* server's caller
HandshakeServerUpdateExtranonce ==
    /\ \E extra_nonce1 \in Extranonce1s, extra_nonce2_size \in PoolSizes :
          ServerDo("update_extranonce",
                   [extra_nonce1 |-> extra_nonce1,
                    extra_nonce2_size |-> extra_nonce2_size],
                   NoHooks,
                   Server_update_extranonce(ServerSession, extra_nonce1,
                                            extra_nonce2_size))
    /\ wire' = Stale(wire)
    /\ hs' = [hs EXCEPT !.synced = FALSE, !.shaken = FALSE]
    /\ UNCHANGED <<cli_vars, hdr_vars>>

\* a Submit whose extra_nonce2 has the length the client holds
HandshakeServerSubmit ==
    /\ ServerHandle([method |-> "Submit", id |-> "7",
                        user_name |-> "alice",
                        extra_nonce2 |-> Zeros(cli_extranonce2_size),
                        version_bits |-> None],
                       [NoHooks EXCEPT !.accepted = TRUE])
    /\ hs' = [hs EXCEPT !.at_submit = [synced |-> hs.synced,
                                       shaken |-> hs.shaken]]
    /\ UNCHANGED <<cli_vars, hdr_vars, wire>>

HandshakeClientHandle ==
    /\ wire # <<>>
    /\ \E hook_ok \in BOOLEAN :
          /\ ClientHandle([kind |-> "Server2ClientResponse",
                           response |-> Subscribe_try_from(Head(wire).response)],
                          hook_ok)
          /\ hs' = IF hook_ok
                   THEN [hs EXCEPT !.synced = Head(wire).latest,
                                   !.shaken = @ \/ Head(wire).latest]
                   ELSE hs
    /\ wire' = Tail(wire)
    /\ UNCHANGED <<srv_vars, hdr_vars>>

HandshakeNext ==
    \/ HandshakeServerSubscribe
    \/ HandshakeServerUpdateExtranonce
    \/ HandshakeServerSubmit
    \/ HandshakeClientHandle

(***************************************************************************)
(* The Configure handshake: the Responses of the server to Configure       *)
(* requests travel, in order, to the client that handles them.             *)
(***************************************************************************)
\* the Configure response the client parses out of the json_rpc Response
\* {id, result: the negotiated version-rolling parameters and min-diff}
Configure_try_from(response) ==
    LET version_rolling == response.result[1]
    IN  [variant |-> "Configure", id |-> response.id,
         version_rolling_mask |->
             IF version_rolling = None THEN None
             ELSE Some(version_rolling.val.version_rolling_mask),
         version_rolling_min_bit |->
             IF version_rolling = None THEN None
             ELSE Some(version_rolling.val.version_rolling_min_bit_count)]

\* the version_bits a client holding the mask may send: bits inside the
\* mask, none without a mask
BitsInside(mask) ==
    IF mask = None THEN {None}
    ELSE {Some(b) : b \in {v \in VersionBits : check_mask(mask.val, v)}}

NegotiationServerConfigure ==
    /\ Len(wire) < MaxWire
    /\ \E mask \in Option(Masks), min_bit \in Option(MinBits),
          negotiated \in Negotiated :
          LET request == [method |-> "Configure", id |-> "1",
                          version_rolling_mask |-> mask,
                          version_rolling_min_bit_count |-> min_bit]
              hooks == [NoHooks EXCEPT !.negotiated = negotiated]
              out == Server_handle_request(ServerSession, request, hooks)
          IN  /\ ServerDo("handle_request", request, hooks, out)
              /\ wire' = Append(Stale(wire),
                                [response |-> out.result.val.val,
                                 latest |-> TRUE])
    /\ hs' = [hs EXCEPT !.synced = FALSE]
    /\ UNCHANGED <<cli_vars, hdr_vars>>

NegotiationClientHandle ==
    /\ wire # <<>>
    /\ \E hook_ok \in BOOLEAN :
          /\ ClientHandle([kind |-> "Server2ClientResponse",
                           response |-> Configure_try_from(Head(wire).response)],
                          hook_ok)
          /\ hs' = IF hook_ok
                   THEN [hs EXCEPT !.synced = Head(wire).latest,
                                   !.shaken = @ \/ Head(wire).latest]
                   ELSE hs
    /\ wire' = Tail(wire)
    /\ UNCHANGED <<srv_vars, hdr_vars>>

\* a Submit whose version_bits are inside the mask the client holds
NegotiationServerSubmit ==
    /\ \E version_bits \in BitsInside(cli_version_rolling_mask),
          accepted \in BOOLEAN :
          ServerHandle([method |-> "Submit", id |-> "7",
                        user_name |-> "alice",
                        extra_nonce2 |-> Zeros(srv_extranonce2_size),
                        version_bits |-> version_bits],
                       [NoHooks EXCEPT !.accepted = accepted])
    /\ hs' = [hs EXCEPT !.at_submit = [synced |-> hs.synced,
                                       shaken |-> hs.shaken]]
    /\ UNCHANGED <<cli_vars, hdr_vars, wire>>

NegotiationNext ==
    \/ NegotiationServerConfigure
    \/ NegotiationClientHandle
    \/ NegotiationServerSubmit

Init == ServerInit /\ ClientInit /\ HeaderInit /\ HandshakeInit

Next ==
    \/ ServerNext /\ UNCHANGED <<cli_vars, hdr_vars, hs_vars>>
    \/ ClientNext /\ UNCHANGED <<srv_vars, hdr_vars, hs_vars>>
    \/ HeaderNext /\ UNCHANGED <<srv_vars, cli_vars, hs_vars>>
    \/ HandshakeNext
    \/ NegotiationNext

Spec == Init /\ [][Next]_vars

\* The two sessions share no state: the properties of one session are
\* checked with the other left as constructed.
SpecServer ==
    Init /\ [][ServerNext /\ UNCHANGED <<cli_vars, hdr_vars, hs_vars>>]_vars

SpecClient ==
    Init /\ [][ClientNext /\ UNCHANGED <<srv_vars, hdr_vars, hs_vars>>]_vars

\* The header codec is a set of pure functions: each behaviour makes one
\* call.
SpecHeader ==
    Init /\ [][HeaderNext /\ UNCHANGED <<srv_vars, cli_vars, hs_vars>>]_vars

\* A server and a client session joined by the Subscribe handshake.
SpecHandshake == Init /\ [][HandshakeNext]_vars

\* A server and a client session joined by the Configure handshake.
SpecNegotiation == Init /\ [][NegotiationNext]_vars

(***************************************************************************)
(* Properties of the server session (checked under SpecServer).            *)
(***************************************************************************)
LastIsServer(method) ==
    srv_last.op = "handle_request" /\ srv_last.input.method = method

IsResponse(result) == result.tag = "Ok" /\ result.val # None

\* the version-bits clause of the Submit validation, as the specification
\* states it
VersionBitsClause(mask, version_bits) ==
    IF mask # None
    THEN version_bits # None
            /\ BitAnd(version_bits.val, BitNot(mask.val)) = {}
    ELSE version_bits = None

\* the three clauses of the Submit validation
SubmitClauses(s, submit) ==
    /\ submit.user_name \in s.authorized_names
    /\ Len(submit.extra_nonce2) = s.extranonce2_size
    /\ VersionBitsClause(s.version_rolling_mask, submit.version_bits)

\* C1: a Submit is answered with a Response only if, in the session as it
\* is when the Submit is handled, user_name is authorized and extra_nonce2
\* has extranonce2_size bytes; if either fails the result is the error
\* InvalidSubmission.
C1_SubmitNeedsAuthorizedNameAndSize ==
    LastIsServer("Submit") =>
        LET submit == srv_last.input
            pre == srv_last.pre
            both == /\ submit.user_name \in pre.authorized_names
                    /\ Len(submit.extra_nonce2) = pre.extranonce2_size
        IN  /\ IsResponse(srv_last.result) => both
            /\ ~both => srv_last.result = Err("InvalidSubmission")

\* a Submit accepted after update_extranonce has set a non-zero size
C1_Witness ==
    /\ LastIsServer("Submit")
    /\ IsResponse(srv_last.result)
    /\ srv_last.pre.extranonce2_size = MaxNonceLen
    /\ srv_last.pre.extranonce1 = <<9, 10>>

\* C2: with a version_rolling_mask set, a Submit is accepted only if it has
\* version_bits and none of them lies outside the mask; with no mask, only
\* if it has no version_bits; in every other combination the result is the
\* error InvalidSubmission.
C2_SubmitVersionBitsClause ==
    LastIsServer("Submit") =>
        LET clause == VersionBitsClause(srv_last.pre.version_rolling_mask,
                                        srv_last.input.version_bits)
        IN  /\ IsResponse(srv_last.result) => clause
            /\ ~clause => srv_last.result = Err("InvalidSubmission")

\* a Submit accepted with version bits inside the session's mask
C2_Witness ==
    /\ LastIsServer("Submit")
    /\ IsResponse(srv_last.result)
    /\ srv_last.pre.version_rolling_mask = Some(13..28)
    /\ srv_last.input.version_bits = Some({13})

\* C6: a Submit that fails one of the validation clauses returns
\* InvalidSubmission, no Response, does not call handle_submit and leaves
\* the whole session as it was.
C6_FailedSubmitChangesNothing ==
    (LastIsServer("Submit") /\ ~SubmitClauses(srv_last.pre, srv_last.input)) =>
        /\ srv_last.result = Err("InvalidSubmission")
        /\ "handle_submit" \notin srv_last.called
        /\ ServerSession = srv_last.pre

\* a Submit of an authorized name refused for the length of extra_nonce2
C6_Witness ==
    /\ LastIsServer("Submit")
    /\ srv_last.result = Err("InvalidSubmission")
    /\ srv_last.input.user_name \in srv_last.pre.authorized_names
    /\ Len(srv_last.input.extra_nonce2) # srv_last.pre.extranonce2_size

\* C7: every Authorize gets a Response with the request's id and the
\* decision of handle_authorize; the name is inserted if and only if the
\* decision is true; every other operation leaves the authorized set
\* unchanged, so the set is exactly the set of names accepted so far.
C7_AuthorizeInsertsIffAccepted ==
    /\ LastIsServer("Authorize") =>
          /\ srv_last.result =
                Ok(Some([id |-> srv_last.input.id,
                         result |-> srv_last.hooks.authorized,
                         error |-> None]))
          /\ srv_authorized_names =
                IF srv_last.hooks.authorized
                THEN srv_last.pre.authorized_names \cup {srv_last.input.name}
                ELSE srv_last.pre.authorized_names
    /\ (srv_last.op # "new" /\ ~LastIsServer("Authorize")) =>
          srv_authorized_names = srv_last.pre.authorized_names
    /\ srv_authorized_names = srv_accepted

\* bob is refused after alice was accepted
C7_Witness ==
    /\ LastIsServer("Authorize")
    /\ srv_last.input.name = "bob"
    /\ ~srv_last.hooks.authorized
    /\ srv_authorized_names = {"alice"}

(***************************************************************************)
(* Properties of the client session (checked under SpecClient).            *)
(***************************************************************************)
LastIsResponse ==
    cli_last.op = "handle_message"
        /\ cli_last.input.kind = "Server2ClientResponse"

LastIsGeneral == cli_last.op = "handle_message" /\ IsGeneral(cli_last.input)

\* the entry the outstanding table held for the id of the response
LastEntry == cli_last.pre.outstanding[cli_last.input.response.id]

\* C3: over the handled responses the client status never moves backward
\* in the order Init < Configured < Subscribed.
C3_StatusNeverMovesBackward ==
    LastIsResponse =>
        StatusRank(cli_status) >= StatusRank(cli_last.pre.status)

\* C4: update_response resolves an ambiguous response by the outstanding
\* table: registered as Authorize(name), the Authorize variant with that
\* name; registered as Submit, the Submit variant; registered as neither,
\* the error UnknownID(id).  Any other variant is returned unchanged.
C4_AmbiguousResponseResolution ==
    LastIsResponse =>
        LET response == cli_last.input.response
        IN  IF response.variant = "GeneralResponse"
            THEN IF IsAuthorizeEntry(LastEntry)
                 THEN cli_last.resolved =
                        Ok([variant |-> "Authorize", id |-> response.id,
                            result |-> response.result,
                            user_name |-> LastEntry.val.name])
                 ELSE IF IsSubmitEntry(LastEntry)
                      THEN cli_last.resolved =
                             Ok([variant |-> "Submit", id |-> response.id,
                                 result |-> response.result])
                      ELSE cli_last.resolved =
                             Err(<<"UnknownID", response.id>>)
            ELSE cli_last.resolved = Ok(response)

\* C5: of two ambiguous responses with the same id that arrive after one
\* registered request with that id, the first is resolved to the variant
\* of the request and the second yields UnknownID and leaves the
\* authorized set unchanged.
C5_EntryRemovedOnFirstMatch ==
    (/\ LastIsGeneral
     /\ cli_last.prev # None
     /\ cli_last.prev.val.op = "handle_message"
     /\ cli_last.prev.val.id = cli_last.input.response.id
     /\ cli_last.prev.val.entry # None) =>
        /\ cli_last.prev.val.resolved.tag = "Ok"
        /\ cli_last.prev.val.resolved.val.variant =
              cli_last.prev.val.entry.val.kind
        /\ cli_last.resolved = Err(<<"UnknownID", cli_last.input.response.id>>)
        /\ cli_last.result = cli_last.resolved
        /\ cli_authorized_names = cli_last.pre.authorized_names

\* C8: while the status is Init, subscribe, authorize and submit return
\* an error, produce no message and change no client state; configure
\* produces a message in every status.
C8_BuildersRefusedInInit ==
    /\ (/\ cli_last.op \in {"subscribe", "authorize", "submit"}
        /\ cli_last.pre.status = "Init") =>
            /\ cli_last.result = Err(Unit)
            /\ ClientSession = cli_last.pre
    /\ cli_last.op = "configure" =>
            /\ cli_last.result.tag = "Message"
            /\ cli_last.result.val.method = "mining.configure"

\* authorize refused in Init
C8_Witness ==
    /\ cli_last.op = "authorize"
    /\ cli_last.pre.status = "Init"
    /\ cli_last.result = Err(Unit)

\* C9: submit produces a Submit message only when the status is not Init,
\* last_notify is present and user_name is authorized, and the message
\* carries the job_id of the Notify handled last; in every other case it
\* returns an error.
C9_SubmitBuilder ==
    cli_last.op = "submit" =>
        LET allowed == /\ cli_last.pre.status # "Init"
                       /\ cli_last.pre.last_notify # None
                       /\ cli_last.input.name \in cli_last.pre.authorized_names
        IN  /\ cli_last.result.tag = "Ok" =>
                    /\ allowed
                    /\ cli_last.result.val.method = "mining.submit"
                    /\ cli_notified = Some(cli_last.result.val.job_id)
            /\ ~allowed => cli_last.result = Err(Unit)

\* a Submit built for the second of two jobs
C9_Witness ==
    /\ cli_last.op = "submit"
    /\ cli_last.result.tag = "Ok"
    /\ cli_last.result.val.job_id = "job_b"
    /\ cli_last.pre.status = "Configured"

OtherServerFields(s) ==
    <<s.authorized_names, s.version_rolling_mask, s.version_rolling_min_bit>>

\* C11 (as stated): a Subscribe allocates extranonce1 and extranonce2_size
\* only when the session has none: on a session whose values an earlier
\* Subscribe or update_extranonce assigned it keeps them, and the Response
\* carries the session's values as they are after the handler.
C11_SubscribeKeepsAssignedValues ==
    LastIsServer("Subscribe") =>
        /\ IsResponse(srv_last.result)
        /\ srv_last.result.val.val.result[2] = srv_extranonce1
        /\ srv_last.result.val.val.result[3] = srv_extranonce2_size
        /\ srv_last.assigned =>
              /\ srv_extranonce1 = srv_last.pre.extranonce1
              /\ srv_extranonce2_size = srv_last.pre.extranonce2_size

\* C11 (amended): every Subscribe has the session create a new extranonce1
\* and a new extranonce2_size, whether or not it had values assigned; the
\* Response answers the request's id and carries the subscriptions of
\* handle_subscribe and the session's two values as they are after the
\* handler; nothing else of the session changes.
C11_SubscribeAllocatesAndReports ==
    LastIsServer("Subscribe") =>
        /\ srv_extranonce1 = srv_last.hooks.extranonce1
        /\ srv_extranonce2_size = srv_last.hooks.extranonce2_size
        /\ srv_last.result =
              Ok(Some([id |-> srv_last.input.id,
                       result |-> <<srv_last.hooks.subscriptions,
                                    srv_extranonce1, srv_extranonce2_size>>,
                       error |-> None]))
        /\ srv_last.called = {"handle_subscribe"}
        /\ OtherServerFields(ServerSession) = OtherServerFields(srv_last.pre)

C11_Witness ==
    /\ LastIsServer("Subscribe")
    /\ srv_last.assigned
    /\ srv_extranonce1 # srv_last.pre.extranonce1
    /\ srv_extranonce2_size # srv_last.pre.extranonce2_size

C13_ServerRejectsResponses ==
    (srv_last.op = "handle_message" /\ srv_last.input.kind = "Response") =>
        /\ srv_last.result = Err("InvalidJsonRpcMessageKind")
        /\ srv_last.called = {}
        /\ ServerSession = srv_last.pre

C13_Witness ==
    /\ srv_last.op = "handle_message"
    /\ srv_last.input.kind = "Response"
    /\ srv_last.pre.authorized_names # {}
    /\ srv_last.assigned

(***************************************************************************)
(* Properties of the inbound side of the client (checked under             *)
(* SpecClient).                                                            *)
(***************************************************************************)
LastIsRequest(methods) ==
    /\ cli_last.op = "handle_message"
    /\ cli_last.input.kind = "Server2Client"
    /\ cli_last.input.request.method \in methods

\* C14: a Notify the client handles is stored as last_notify, overwriting
\* the one stored before; no Response is produced and nothing else of the
\* session changes, so handling the same Notify a second time leaves the
\* session as it is after the first.  (When handle_notify refuses the Notify
\* its error is returned and the session is left as it was.)
C14_NotifyStoredAsLast ==
    LastIsRequest({"Notify"}) =>
        IF cli_last.hook_ok
        THEN LET again == Client_handle_message(ClientSession, cli_last.input,
                                                TRUE)
             IN  /\ cli_last.result = Ok(None)
                 /\ cli_last_notify = Some(cli_last.input.request)
                 /\ ClientSession =
                       [cli_last.pre EXCEPT
                          !.last_notify = Some(cli_last.input.request)]
                 /\ again.session = ClientSession
                 /\ again.result = Ok(None)
        ELSE /\ cli_last.result.tag = "Err"
             /\ ClientSession = cli_last.pre

C14_Witness ==
    /\ LastIsRequest({"Notify"})
    /\ cli_last.hook_ok
    /\ cli_last.pre.last_notify # None
    /\ cli_last.pre.last_notify # cli_last_notify
    /\ cli_last.pre.status = "Subscribed"
    /\ cli_last.pre.authorized_names # {}

\* C18: the client handles SetDifficulty, SetExtranonce and SetVersionMask
\* by updating the session field the notification is about and returns
\* normally with no Response: no handled notification leaves the client
\* failed.
C18_SetNotificationsHandled ==
    LastIsRequest({"SetDifficulty", "SetExtranonce", "SetVersionMask"}) =>
        LET request == cli_last.input.request
        IN  /\ ~ClientPanicked
            /\ cli_last.result = Ok(None)
            /\ request.method = "SetExtranonce" =>
                  /\ cli_extranonce1 = request.extra_nonce1
                  /\ cli_extranonce2_size = request.extra_nonce2_size
            /\ request.method = "SetVersionMask" =>
                  cli_version_rolling_mask = Some(request.version_mask)

\* C19: handle_message of the client answers a message carrying a
\* Client2Server method, or one that does not parse into a method, with an
\* error (InvalidReceiver for the former): no Response is produced, no hook
\* is called and the session is left as it was.
C19_ClientRejectsForeignMessages ==
    (cli_last.op = "handle_message"
       /\ cli_last.input.kind \in {"Client2Server", "ParseError"}) =>
        /\ cli_last.result.tag = "Err"
        /\ cli_last.input.kind = "Client2Server" =>
              cli_last.result = Err("InvalidReceiver")
        /\ cli_last.called = {}
        /\ ClientSession = cli_last.pre

C19_Witness ==
    /\ cli_last.op = "handle_message"
    /\ cli_last.input.kind = "Client2Server"
    /\ cli_last.input.method = "Submit"
    /\ cli_last.pre.status = "Subscribed"
    /\ cli_last.pre.authorized_names # {}
    /\ cli_last.pre.last_notify # None

(***************************************************************************)
(* Properties of the V2 frame header (checked under SpecHeader).           *)
(***************************************************************************)
\* C15: from_bytes on fewer than 6 bytes returns the error value
\* 6 - len(bytes) and no header; on 6 bytes or more it always succeeds, with
\* extension_type = b0 + 256*b1, msg_type = b2 and
\* len() = b3 + 256*b4 + 65536*b5.
C15_FromBytes ==
    hdr.op = "from_bytes" =>
        LET b == hdr.bytes
        IN  IF Len(b) < 6
            THEN hdr.result = Err(6 - Len(b))
            ELSE /\ hdr.result.tag = "Ok"
                 /\ hdr.result.val.extension_type = b[1] + 256 * b[2]
                 /\ Header_msg_type(hdr.result.val) = b[3]
                 /\ Header_len(hdr.result.val)
                       = b[4] + 256 * b[5] + 65536 * b[6]

C15_Witness ==
    /\ hdr.op = "from_bytes"
    /\ Len(hdr.bytes) = 6
    /\ hdr.result.tag = "Ok"
    /\ hdr.result.val.extension_type = 511
    /\ hdr.result.val.msg_type = 1
    /\ hdr.result.val.msg_length = 65536 + 255

\* C16: from_len(len, msg_type, extension_type) returns a header exactly
\* when len < 2^24; that header h has h.len() = len and
\* h.msg_type() = msg_type, and from_bytes on the 6-byte little-endian
\* layout of h gives a header with the same three fields.
C16_FromLenRoundTrip ==
    hdr.op = "from_len" =>
        /\ (hdr.result # None) <=> (hdr.len < 16777216)
        /\ hdr.result # None =>
              /\ Header_len(hdr.result.val) = hdr.len
              /\ Header_msg_type(hdr.result.val) = hdr.message_type
              /\ hdr.result.val.extension_type = hdr.extension_type
              /\ Len(Header_to_bytes(hdr.result.val)) = 6
              /\ hdr.decoded = Some(Ok(hdr.result.val))

C16_Witness ==
    /\ hdr.op = "from_len"
    /\ hdr.len = 16777215
    /\ hdr.message_type = 255
    /\ hdr.extension_type = 32768
    /\ hdr.result # None
    /\ hdr.decoded # None

\* C17: channel_msg() is true exactly when extension_type is 0 or 1,
\* whatever msg_type and msg_length are.
C17_ChannelMsg ==
    hdr.op = "channel_msg" =>
        (hdr.result <=> hdr.header.extension_type \in {0, 1})

C17_Witness ==
    /\ hdr.op = "channel_msg"
    /\ hdr.result
    /\ hdr.header.extension_type = 1
    /\ hdr.header.msg_type = 255
    /\ hdr.header.msg_length > 0

(***************************************************************************)
(* Properties of the Subscribe handshake (checked under SpecHandshake).    *)
(***************************************************************************)
ExtranonceAgreement ==
    /\ cli_extranonce1 = srv_extranonce1
    /\ cli_extranonce2_size = srv_extranonce2_size
    /\ cli_status = "Subscribed"

\* the extranonce2-length clause of the Submit the server handled last
LengthClausePassed ==
    Len(srv_last.input.extra_nonce2) = srv_last.pre.extranonce2_size

\* C20 (as stated): once the server has handled a Subscribe and the client
\* the resulting Response, the client's extranonce1 and extranonce2_size
\* equal the server session's and the client is Subscribed; from then on,
\* as long as the server does not call update_extranonce, a Submit whose
\* extra_nonce2 has the client's extranonce2_size passes the
\* extranonce2-length clause of the server.
C20_AgreementUntilUpdate ==
    /\ hs.synced => ExtranonceAgreement
    /\ (LastIsServer("Submit") /\ hs.at_submit.shaken) => LengthClausePassed

\* C20 (amended): as above, but only as long as the server calls neither
\* update_extranonce nor handles a further Subscribe whose Response the
\* client has not handled yet: the values agree, and the Submit passes the
\* length clause, while the client holds what the server assigned last.
C20_AgreementWhileSynced ==
    /\ hs.synced => ExtranonceAgreement
    /\ (LastIsServer("Submit") /\ hs.at_submit.synced) =>
          LengthClausePassed

C20_Witness ==
    /\ hs.synced
    /\ hs.at_submit.synced
    /\ LastIsServer("Submit")
    /\ srv_extranonce2_size = MaxNonceLen
    /\ srv_extranonce1 = <<9, 10>>
    /\ cli_last.op = "handle_message"

(***************************************************************************)
(* The writes of the client status (checked under SpecClient).             *)
(***************************************************************************)
\* the last operation handled a response of the given variant and the hook
\* of its arm returned Ok
LastAdopted(variant) ==
    /\ cli_last.op = "handle_message"
    /\ cli_last.input.kind = "Server2ClientResponse"
    /\ cli_last.input.response.variant = variant
    /\ cli_last.hook_ok

\* C22: a client session that has left Init never returns to Init: over
\* every handled message and builder call the status is written only to
\* Configured, by a Configure response whose handle_configure succeeded, and
\* to Subscribed, by a Subscribe response whose handle_subscribe succeeded;
\* every other operation leaves it as it was.
C22_StatusWrites ==
    cli_last.op # "new" =>
        /\ cli_last.pre.status # "Init" => cli_status # "Init"
        /\ cli_status =
              IF LastAdopted("Configure") THEN "Configured"
              ELSE IF LastAdopted("Subscribe") THEN "Subscribed"
              ELSE cli_last.pre.status

C22_Witness ==
    /\ cli_last.op = "subscribe"
    /\ cli_last.result.tag = "Ok"
    /\ cli_last.pre.status = "Subscribed"
    /\ cli_last.pre.authorized_names # {}
    /\ cli_last_notify # None

(***************************************************************************)
(* Properties of the Configure handshake (checked under SpecNegotiation).  *)
(***************************************************************************)
\* C21: once the server has handled a Configure and the client the
\* resulting Response, the version_rolling_mask the client holds equals the
\* one the server session validates Submits with, so version_bits inside
\* the client's mask are never rejected by the version-bits clause of the
\* server.
C21_MaskAgreement ==
    /\ hs.synced => cli_version_rolling_mask = srv_version_rolling_mask
    /\ (LastIsServer("Submit") /\ hs.at_submit.synced) =>
          has_valid_version_bits(srv_last.pre, srv_last.input)

====
